---- MODULE Spec2Model ----
(***************************************************************************)
(* A model of compress-figma-json.py: the JSON document it loads, the four *)
(* compression stages (compress_images, compress_svgs,                     *)
(* compress_design_tokens, simplify_tree), the two tiers                   *)
(* (compress_standard, compress_aggressive) and the control flow of main.  *)
(*                                                                         *)
(* JSON values.  Every JSON value is a record [k, n, items]:               *)
(*   k = "null"                                                            *)
(*   k = "num"   n is the (non-negative integer) number                    *)
(*   k = "str"   n is the length of the string in characters; the text is  *)
(*               opaque ASCII payload without characters json.dumps would  *)
(*               escape, so its UTF-8 length is n and it serialises to     *)
(*               n + 2 bytes.  A payload never contains a key name the     *)
(*               program looks for, so `key in payload` is False.          *)
(*   k = "list"  items is the sequence of elements, each [key |-> "", val] *)
(*   k = "dict"  items is the sequence of [key, val] entries in insertion  *)
(*               order (a Python dict keeps insertion order)               *)
(* The encoding is uniform so that any two values can be compared.         *)
(***************************************************************************)
EXTENDS Integers, Sequences, FiniteSets, Bags, TLC

VARIABLES
    pc,              \* position of the run (main) or of the call (tiers, stages)
    args,            \* argparse result: [aggressive, target_size]
    input_file,      \* the document in the input file; the value before a call
    data,            \* main's `data`; the value a tier or a stage mutates
    original_size,   \* main's original_size, in bytes (-1 before it is measured)
    compressed_size, \* main's compressed_size, in bytes (-1 before it is measured)
    log,             \* the tiers and stages applied so far, in order (the progress lines)
    output_file      \* the document written to the output file (Null before it is written)

vars == <<pc, args, input_file, data, original_size, compressed_size, log, output_file>>

----------------------------------------------------------------------------
(* JSON values and the Python operations the program uses on them          *)

Entry(key, val) == [key |-> key, val |-> val]
Null == [k |-> "null", n |-> 0, items |-> <<>>]
Num(v) == [k |-> "num", n |-> v, items |-> <<>>]
Str(len) == [k |-> "str", n |-> len, items |-> <<>>]
List(vals) == [k |-> "list", n |-> 0, items |-> [i \in 1..Len(vals) |-> Entry("", vals[i])]]
Dict(entries) == [k |-> "dict", n |-> 0, items |-> entries]

IsDict(v) == v.k = "dict"

\* `key in v`: key membership for a dict; False for a list or a string (no
\* element or substring equals a key name); a number and None raise TypeError.
In(key, v) == IsDict(v) /\ \E i \in 1..Len(v.items) : v.items[i].key = key
InRaises(v) == v.k \in {"num", "null"}

\* v[key] of a dict that has the key
Get(v, key) == v.items[CHOOSE i \in 1..Len(v.items) : v.items[i].key = key].val

\* dict.get(key): None when the key is absent
GetOrNone(v, key) == IF In(key, v) THEN Get(v, key) ELSE Null

\* del v[key]
Del(v, key) == Dict(SelectSeq(v.items, LAMBDA e : e.key # key))

\* v[key] = val: an existing key keeps its position, a new key is appended
Put(v, key, val) ==
    IF In(key, v)
    THEN Dict([i \in 1..Len(v.items) |->
                 IF v.items[i].key = key THEN Entry(key, val) ELSE v.items[i]])
    ELSE Dict(Append(v.items, Entry(key, val)))

\* bool(v)
Truthy(v) ==
    CASE v.k = "null" -> FALSE
      [] v.k = "num" -> v.n # 0
      [] v.k = "str" -> v.n > 0
      [] OTHER -> Len(v.items) > 0

\* len(v) of a string, list or dict; a number and None raise TypeError
PyLen(v) == IF v.k = "str" THEN v.n ELSE Len(v.items)
PyLenRaises(v) == v.k \in {"num", "null"}

Range(seq) == {seq[i] : i \in 1..Len(seq)}

\* what a stage hands back: ok = FALSE when it raised, v the value as mutated so far
Ok(v) == [ok |-> TRUE, v |-> v]
Raised(v) == [ok |-> FALSE, v |-> v]

----------------------------------------------------------------------------
(* get_size_mb: the length of json.dumps(data, separators=(',', ':'))      *)

RECURSIVE Digits(_)
Digits(v) == IF v < 10 THEN 1 ELSE 1 + Digits(v \div 10)

\* The brackets of a list or dict, the commas between its items and, in a
\* dict, the quotes and the colon of every key.  Every addend is at least one,
\* so the bag of the addends has their sum as its cardinality.
Punctuation(v) ==
    2 + (IF Len(v.items) > 1 THEN Len(v.items) - 1 ELSE 0)
      + (IF v.k = "dict"
         THEN BagCardinality([i \in 1..Len(v.items) |-> Len(v.items[i].key) + 3])
         ELSE 0)

\* The bytes of a value apart from those of its items
Own(v) ==
    CASE v.k = "null" -> 4
      [] v.k = "num" -> Digits(v.n)
      [] v.k = "str" -> v.n + 2
      [] OTHER -> Punctuation(v)

\* The places of the items of the items of v: <<i, j>> is item j of item i
Below(v) ==
    UNION {{<<i, j>> : j \in 1..Len(v.items[i].val.items)} : i \in 1..Len(v.items)}

\* The serialisation of a value is made of the value's own bytes, those of its
\* items, and the serialisations of the items of its items.  Going down two
\* levels at a time, and taking the sizes furthest down first, halves the depth
\* of the evaluation on a tree of nodes with lists of child nodes.
RECURSIVE Size(_)
Size(v) ==
    LET below == [p \in Below(v) |-> Size(v.items[p[1]].val.items[p[2]].val)]
    IN  BagCardinality(below)
        + BagCardinality([i \in 1..Len(v.items) |-> Own(v.items[i].val)])
        + Own(v)

\* One megabyte, the divisor of get_size_mb.  Sizes are kept in bytes and the
\* megabyte figures they are compared with are scaled by MB, which is exact.
MB == 1048576
get_size_mb(v) == Size(v)

----------------------------------------------------------------------------
(* compress_images, compress_svgs                                          *)

\* base64_size_kb > max_size_kb, with base64_size_kb = len * 0.75 / 1024
ImageOver(asset, max_size_kb) ==
    In("base64", asset) /\ 3 * PyLen(Get(asset, "base64")) > 4096 * max_size_kb

\* `'base64' in asset` raises for a number or None, len() for a number or None
ImageRaises(asset) ==
    InRaises(asset) \/ (In("base64", asset) /\ PyLenRaises(Get(asset, "base64")))

compress_images(assets, max_size_kb) ==
    IF ~IsDict(assets) THEN Raised(assets)               \* no .get
    ELSE LET images == GetOrNone(assets, "images") IN
         IF ~Truthy(images) THEN Ok(assets)
         ELSE IF ~IsDict(images) THEN Raised(assets)     \* no .items
         ELSE IF \E i \in 1..Len(images.items) : ImageRaises(images.items[i].val)
              THEN Raised(assets)
         ELSE Ok(Put(assets, "images",
                     Dict(SelectSeq(images.items,
                                    LAMBDA e : ~ImageOver(e.val, max_size_kb)))))

\* svg_size_kb > max_size_kb, with svg_size_kb = len(svgCode.encode('utf-8')) / 1024
SvgOver(asset, max_size_kb) ==
    In("svgCode", asset) /\ Get(asset, "svgCode").n > 1024 * max_size_kb

\* only a string has .encode
SvgRaises(asset) ==
    InRaises(asset) \/ (In("svgCode", asset) /\ Get(asset, "svgCode").k # "str")

compress_svgs(assets, max_size_kb) ==
    IF ~IsDict(assets) THEN Raised(assets)
    ELSE LET svgs == GetOrNone(assets, "svgs") IN
         IF ~Truthy(svgs) THEN Ok(assets)
         ELSE IF ~IsDict(svgs) THEN Raised(assets)
         ELSE IF \E i \in 1..Len(svgs.items) : SvgRaises(svgs.items[i].val)
              THEN Raised(assets)
         ELSE Ok(Put(assets, "svgs",
                     Dict(SelectSeq(svgs.items,
                                    LAMBDA e : ~SvgOver(e.val, max_size_kb)))))

----------------------------------------------------------------------------
(* compress_design_tokens                                                  *)

\* max_colors with the two caps swapped
max_colors_swapped(aggressive) == IF ~aggressive THEN 15 ELSE 30

max_colors(aggressive) == IF ~aggressive THEN 30 ELSE 15
max_typography(aggressive) == IF ~aggressive THEN 20 ELSE 10
max_spacing(aggressive) == IF ~aggressive THEN 25 ELSE 10

\* the sort key x[1].get('usage', 0); token definitions carry a number as usage
usage(e) == IF In("usage", e.val) THEN Get(e.val, "usage").n ELSE 0

\* Rank with the entries of equal usage in reverse order
RankUnstable(u, i) ==
    Cardinality({j \in DOMAIN u : u[j] > u[i] \/ (u[j] = u[i] /\ j > i)}) + 1

\* list.sort(key=..., reverse=True) is stable: an entry goes behind every entry
\* of greater usage and behind the earlier entries of equal usage.  u holds the
\* keys of the entries, Rank the place of entry i in the sorted list.
Rank(u, i) ==
    Cardinality({j \in DOMAIN u : u[j] > u[i] \/ (u[j] = u[i] /\ j < i)}) + 1

SortByUsage(items) ==
    LET u == [i \in 1..Len(items) |-> usage(items[i])]
        r == [i \in 1..Len(items) |-> Rank(u, i)]
    IN  [p \in 1..Len(items) |-> items[CHOOSE i \in 1..Len(items) : r[i] = p]]

\* The key function raises AttributeError on a definition that is not a dict;
\* list.sort then leaves the list as it was and the bare except swallows it.
sort_colors(color_items) ==
    IF \E i \in 1..Len(color_items) : ~IsDict(color_items[i].val)
    THEN color_items
    ELSE SortByUsage(color_items)

\* items[:cap]
Truncate(items, cap) == SubSeq(items, 1, IF Len(items) < cap THEN Len(items) ELSE cap)

\* one of the three blocks `if key in tokens: tokens[key] = dict(list(...)[:cap])`
reduce_collection(r, key, cap, sorted) ==
    IF ~r.ok \/ ~In(key, r.v) THEN r
    ELSE LET c == Get(r.v, key) IN
         IF ~IsDict(c) THEN Raised(r.v)                  \* no .items
         ELSE Ok(Put(r.v, key,
                     Dict(Truncate(IF sorted THEN sort_colors(c.items) ELSE c.items,
                                   cap))))

compress_design_tokens(tokens, aggressive) ==
    IF ~Truthy(tokens) THEN Ok(tokens)
    ELSE IF ~IsDict(tokens) THEN Raised(tokens)   \* `in` on a number; .get in the report line
    ELSE reduce_collection(
             reduce_collection(
                 reduce_collection(Ok(tokens), "colors", max_colors(aggressive), TRUE),
                 "typography", max_typography(aggressive), FALSE),
             "spacing", max_spacing(aggressive), FALSE)

----------------------------------------------------------------------------
(* simplify_tree                                                           *)

metadata_to_remove ==
    {"htmlMetadata", "debugInfo", "sourceSelector",
     "componentSignature", "contentHash", "cssVariables"}

strip_metadata(node) == Dict(SelectSeq(node.items, LAMBDA e : e.key \notin metadata_to_remove))

\* at_cutoff with > for >=
past_cutoff(current_depth, max_depth) == current_depth > max_depth

\* `if current_depth >= max_depth`
at_cutoff(current_depth, max_depth) == current_depth >= max_depth

\* The walk over a node.  The children are walked first; a node without child
\* nodes to put back is left as it is after the metadata is gone.
RECURSIVE simplify_node(_, _, _)
simplify_node(node, max_depth, current_depth) ==
    LET stripped == strip_metadata(node)
        ch == IF In("children", stripped) /\ Get(stripped, "children").k = "list"
              THEN Get(stripped, "children").items
              ELSE <<>>
        walked == [i \in 1..Len(ch) |->
                      IF IsDict(ch[i].val)
                      THEN simplify_node(ch[i].val, max_depth, current_depth + 1)
                      ELSE ch[i].val]
    IN  CASE ~IsDict(node) -> node
          [] at_cutoff(current_depth, max_depth) ->
                 IF In("children", stripped)
                 THEN Put(stripped, "children", List(<<>>))
                 ELSE stripped
          [] walked # <<>> -> Put(stripped, "children", List(walked))
          [] OTHER -> stripped

\* `key in node` raises TypeError on a number or None; the recursion only
\* enters dicts, so only the root can raise
simplify_tree(node, max_depth) ==
    IF InRaises(node) THEN Raised(node) ELSE Ok(simplify_node(node, max_depth, 0))

----------------------------------------------------------------------------
(* compress_standard, compress_aggressive                                  *)

\* the block `if 'assets' in data: compress_images(...); compress_svgs(...)`
tier_assets(r, image_kb, svg_kb) ==
    IF ~r.ok \/ ~In("assets", r.v) THEN r
    ELSE LET i == compress_images(Get(r.v, "assets"), image_kb) IN
         IF ~i.ok THEN Raised(r.v)
         ELSE LET s == compress_svgs(i.v, svg_kb) IN
              [ok |-> s.ok, v |-> Put(r.v, "assets", s.v)]

\* the block `if 'designTokens' in data: compress_design_tokens(...)`
tier_tokens(r, aggressive) ==
    IF ~r.ok \/ ~In("designTokens", r.v) THEN r
    ELSE LET t == compress_design_tokens(Get(r.v, "designTokens"), aggressive) IN
         [ok |-> t.ok, v |-> Put(r.v, "designTokens", t.v)]

\* the block `if 'tree' in data: simplify_tree(data['tree'], max_depth=...)`
tier_tree(r, max_depth) ==
    IF ~r.ok \/ ~In("tree", r.v) THEN r
    ELSE LET t == simplify_tree(Get(r.v, "tree"), max_depth) IN
         [ok |-> t.ok, v |-> Put(r.v, "tree", t.v)]

compress_standard(d) ==
    tier_tree(tier_tokens(tier_assets(Ok(d), 75, 30), FALSE), 10)

\* `if 'screenshot' in data: del data['screenshot']`
remove_screenshot(r) ==
    IF ~r.ok \/ ~In("screenshot", r.v) THEN r ELSE Ok(Del(r.v, "screenshot"))

\* remove_components that empties `definitions` and keeps the sibling keys
remove_components_keeps_siblings(r) ==
    IF ~r.ok \/ ~In("components", r.v) THEN r
    ELSE LET c == Get(r.v, "components") IN
         Ok(Put(r.v, "components",
                IF IsDict(c) THEN Put(c, "definitions", Dict(<<>>))
                ELSE Dict(<<Entry("definitions", Dict(<<>>))>>)))

\* `if 'components' in data: data['components'] = {'definitions': {}}`
remove_components(r) ==
    IF ~r.ok \/ ~In("components", r.v) THEN r
    ELSE Ok(Put(r.v, "components", Dict(<<Entry("definitions", Dict(<<>>))>>)))

optional_keys == {"cssVariables", "variants", "extractionSummary"}

\* `for key in optional_keys: if key in data: del data[key]`
remove_optional_keys(r) ==
    IF ~r.ok THEN r
    ELSE Ok(Dict(SelectSeq(r.v.items, LAMBDA e : e.key \notin optional_keys)))

compress_aggressive(d) ==
    remove_optional_keys(
        tier_tree(
            remove_components(
                remove_screenshot(
                    tier_tokens(tier_assets(Ok(d), 25, 10), TRUE))),
            6))

----------------------------------------------------------------------------
(* main                                                                    *)

\* --target-size: its default, and the other budgets a run is started with
default_target_size == 150
TargetSizes == {100, default_target_size, 300}

\* the fixed size above which the first pass is aggressive
aggressive_threshold == 250

\* first_tier without the flag: only the size decides
first_tier_ignores_flag ==
    IF original_size > aggressive_threshold * MB THEN "aggressive" ELSE "standard"

\* first_tier with `and` for `or`
first_tier_and ==
    IF args.aggressive /\ original_size > aggressive_threshold * MB
    THEN "aggressive" ELSE "standard"

\* `if args.aggressive or original_size > 250`
first_tier ==
    IF args.aggressive \/ original_size > aggressive_threshold * MB
    THEN "aggressive" ELSE "standard"

apply_tier(tier, d) ==
    IF tier = "aggressive" THEN compress_aggressive(d) ELSE compress_standard(d)

\* json.load and the first get_size_mb
Load ==
    /\ pc = "start"
    /\ data' = input_file
    /\ original_size' = get_size_mb(input_file)
    /\ pc' = "measured"
    /\ UNCHANGED <<args, input_file, compressed_size, log, output_file>>

\* WriteUnchanged that compresses before it writes
WriteCompressed ==
    /\ pc = "measured"
    /\ original_size <= args.target_size * MB
    /\ output_file' = compress_standard(data).v
    /\ pc' = "done"
    /\ UNCHANGED <<args, input_file, data, original_size, compressed_size, log>>

\* `if original_size <= args.target_size:` write the document and return
WriteUnchanged ==
    /\ pc = "measured"
    /\ original_size <= args.target_size * MB
    /\ output_file' = data
    /\ pc' = "done"
    /\ UNCHANGED <<args, input_file, data, original_size, compressed_size, log>>

\* the first pass and the measurement after it; a tier that raises ends the run
FirstPass ==
    /\ pc = "measured"
    /\ original_size > args.target_size * MB
    /\ LET r == apply_tier(first_tier, data) IN
          /\ data' = r.v
          /\ log' = Append(log, first_tier)
          /\ compressed_size' = IF r.ok THEN get_size_mb(r.v) ELSE compressed_size
          /\ pc' = IF r.ok THEN "compressed" ELSE "raised"
    /\ UNCHANGED <<args, input_file, original_size, output_file>>

\* SecondPass that reports the escalation and does not apply it
SecondPassSkipped ==
    /\ pc = "compressed"
    /\ compressed_size > args.target_size * MB
    /\ pc' = "final"
    /\ UNCHANGED <<args, input_file, data, original_size, compressed_size, log, output_file>>

\* `if compressed_size > args.target_size:` a second, aggressive pass
SecondPass ==
    /\ pc = "compressed"
    /\ compressed_size > args.target_size * MB
    /\ LET r == compress_aggressive(data) IN
          /\ data' = r.v
          /\ log' = Append(log, "aggressive")
          /\ pc' = IF r.ok THEN "final" ELSE "raised"
    /\ UNCHANGED <<args, input_file, original_size, compressed_size, output_file>>

\* json.dump of the compressed document
Save ==
    /\ \/ pc = "final"
       \/ pc = "compressed" /\ ~(compressed_size > args.target_size * MB)
    /\ output_file' = data
    /\ pc' = "done"
    /\ UNCHANGED <<args, input_file, data, original_size, compressed_size, log>>

----------------------------------------------------------------------------
(* The documents the runs and the calls are started on                     *)

\* bounds of the input families
MaxColorTokens == 32
MaxTreeDepth == 3
MaxWidth == 2
MaxCalls == 2

TokenNames == <<"t01", "t02", "t03", "t04", "t05", "t06", "t07", "t08", "t09", "t10", "t11", "t12", "t13", "t14", "t15", "t16", "t17", "t18", "t19", "t20", "t21", "t22", "t23", "t24", "t25", "t26", "t27", "t28", "t29", "t30", "t31", "t32", "t33", "t34", "t35", "t36", "t37", "t38", "t39", "t40">>
TokenName(i) == TokenNames[i]

\* a color definition: a mapping with a value and, unless u < 0, a usage count
ColorDef(u) ==
    IF u < 0 THEN Dict(<<Entry("value", Str(7))>>)
    ELSE Dict(<<Entry("value", Str(7)), Entry("usage", Num(u))>>)

UsagePatterns == {"asc", "desc", "ties", "none", "mixed"}
UsageAt(p, i, n) ==
    CASE p = "asc" -> i
      [] p = "desc" -> n - i
      [] p = "ties" -> (i * 7) % 3
      [] p = "none" -> -1
      [] OTHER -> IF i % 2 = 0 THEN -1 ELSE i % 4

\* n color tokens following usage pattern p; entry q (if any) is defined by a
\* bare color string instead of a mapping
Colors(n, p, q) ==
    Dict([i \in 1..n |->
            Entry(TokenName(i), IF i = q THEN Str(7) ELSE ColorDef(UsageAt(p, i, n)))])

\* n typography or spacing tokens
Plain(n) == Dict([i \in 1..n |-> Entry(TokenName(i), Dict(<<Entry("size", Num(i))>>))])

WrongShapes == {Null, Num(5), Num(0), Str(0), Str(3), List(<<>>), List(<<Num(1)>>)}

ColorCollections ==
    UNION {{Colors(n, p, q) : p \in UsagePatterns, q \in {0, 1, n}} : n \in 0..MaxColorTokens}

TokenInputs ==
    {Dict(<<Entry("colors", c)>>) : c \in ColorCollections \cup WrongShapes}
    \cup {Dict(<<Entry("colors", Colors(3, "asc", 0)), Entry("typography", t), Entry("spacing", sp)>>) :
             t \in {Plain(22), Plain(9), List(<<Num(1)>>), Null},
             sp \in {Plain(27), Plain(11), Str(3)}}
    \cup {Dict(<<>>)} \cup WrongShapes

\* base64 lengths around the 25 KB and 75 KB limits, svgCode lengths around
\* the 10 KB and 30 KB limits
ImageLens == {34133, 34134, 102400, 102401}
SvgLens == {10240, 10241, 30720, 30721}
ImageRecords == {Dict(<<Entry("base64", Str(l)), Entry("width", Num(64))>>) : l \in ImageLens}
                    \cup {Dict(<<Entry("url", Str(20))>>)}
SvgRecords == {Dict(<<Entry("svgCode", Str(l))>>) : l \in SvgLens} \cup {Dict(<<Entry("url", Str(20))>>)}

AssetInputs ==
    {Dict(<<Entry("images", Dict(<<Entry("h1", a), Entry("h2", b)>>)),
            Entry("svgs", Dict(<<Entry("h3", c)>>))>>) :
        a \in ImageRecords, b \in ImageRecords, c \in SvgRecords}
    \cup {Dict(<<Entry("images", w), Entry("svgs", Dict(<<Entry("h3", c)>>))>>) :
             w \in WrongShapes, c \in SvgRecords}
    \cup {Dict(<<Entry("svgs", w)>>) : w \in WrongShapes}
    \cup {Dict(<<>>)}

LeafShapes == {"none", "empty", "num", "null", "str", "dict"}
MetaShapes == {"all", "odd"}

NodeMeta(id, meta) ==
    IF meta = "all" \/ id % 2 = 1
    THEN <<Entry("debugInfo", Str(9)), Entry("contentHash", Str(8)),
           Entry("cssVariables", Dict(<<Entry("x", Num(1))>>))>>
    ELSE <<Entry("htmlMetadata", Null)>>

\* A tree of the given depth in which every inner node has `width` child nodes
\* (followed, if mixed, by an element that is not a node).  Every node has its
\* own id.  The nodes at the bottom have `children` of the shape named by leaf.
Bottom(base, leaf) ==
    CASE leaf = "none" -> Dict(base)
      [] leaf = "empty" -> Dict(Append(base, Entry("children", List(<<>>))))
      [] leaf = "num" -> Dict(Append(base, Entry("children", Num(5))))
      [] leaf = "null" -> Dict(Append(base, Entry("children", Null)))
      [] leaf = "str" -> Dict(Append(base, Entry("children", Str(0))))
      [] OTHER -> Dict(Append(base, Entry("children",
                      Dict(<<Entry("a", Dict(<<Entry("id", Num(0)),
                                              Entry("debugInfo", Str(9))>>))>>))))

RECURSIVE MakeTree(_, _, _, _, _, _)
MakeTree(id, depth, width, leaf, meta, mixed) ==
    LET base == <<Entry("id", Num(id))>> \o NodeMeta(id, meta) \o <<Entry("name", Str(4))>>
        ids == [j \in 1..(IF depth > 0 THEN width ELSE 0) |-> id * (width + 1) + j]
        kids == [j \in 1..Len(ids) |-> MakeTree(ids[j], depth - 1, width, leaf, meta, mixed)]
    IN  IF kids # <<>>
        THEN Dict(Append(base, Entry("children",
                     List(IF mixed THEN Append(kids, Str(3)) ELSE kids))))
        ELSE Bottom(base, leaf)

TreeInputs ==
    {MakeTree(1, d, w, leaf, meta, mixed) :
        d \in 0..MaxTreeDepth, w \in 1..MaxWidth, leaf \in LeafShapes,
        meta \in MetaShapes, mixed \in BOOLEAN}
    \cup WrongShapes

\* the documents main is run on: sizes of tens and hundreds of megabytes
Parts(key, vals) == {<<>>} \cup {<<Entry(key, v)>> : v \in vals}

Documents ==
    {Dict(m \o sh \o a \o c \o t \o dt \o cv) :
        m \in Parts("metadata", {Str(120 * MB), Str(260 * MB)}),
        sh \in Parts("screenshot", {Str(60 * MB)}),
        a \in Parts("assets",
                {Dict(<<Entry("images", Dict(<<Entry("h1", Dict(<<Entry("base64", Str(40 * MB))>>))>>))>>),
                 Dict(<<Entry("images", Dict(<<Entry("h1", Dict(<<Entry("base64", Str(50000))>>))>>))>>),
                 Dict(<<Entry("images", List(<<Num(1)>>))>>)}),
        c \in Parts("components",
                {Dict(<<Entry("definitions", Dict(<<Entry("Button", Dict(<<>>))>>)),
                        Entry("registry", List(<<Num(1)>>))>>)}),
        t \in Parts("tree", {MakeTree(1, 7, 1, "empty", "all", FALSE)}),
        dt \in Parts("designTokens", {Dict(<<Entry("colors", Colors(17, "asc", 0))>>)}),
        cv \in Parts("cssVariables", {Dict(<<Entry("x", Num(1))>>)})}

\* the documents the tiers are called on
TierDocuments ==
    {Dict(dt \o sh \o t \o c \o a) :
        dt \in Parts("designTokens",
                 {Dict(<<Entry("colors", Colors(17, "asc", 0))>>),
                  Dict(<<Entry("colors", Colors(17, "asc", 17))>>),
                  Dict(<<Entry("colors", Colors(MaxColorTokens, "ties", 0))>>),
                  Dict(<<Entry("colors", Colors(MaxColorTokens, "ties", MaxColorTokens))>>),
                  Dict(<<Entry("colors", Colors(3, "asc", 0)),
                         Entry("typography", Plain(22)), Entry("spacing", Plain(27))>>),
                  Null}),
        sh \in {<<>>, <<Entry("screenshot", Str(1000)), Entry("variants", Dict(<<>>))>>},
        t \in Parts("tree",
                {MakeTree(1, 7, 1, "empty", "odd", FALSE),
                 MakeTree(1, 7, 1, "num", "odd", FALSE),
                 MakeTree(1, 11, 1, "num", "all", TRUE),
                 MakeTree(1, MaxTreeDepth, MaxWidth, "none", "all", TRUE)}),
        c \in Parts("components",
                {Dict(<<>>), Null, Dict(<<Entry("definitions", Dict(<<>>))>>),
                 Dict(<<Entry("definitions", Dict(<<Entry("Button", Dict(<<>>))>>)),
                        Entry("registry", List(<<Num(1)>>))>>)}),
        a \in Parts("assets",
                {Dict(<<Entry("images", Dict(<<Entry("h1", Dict(<<Entry("base64", Str(34134))>>))>>)),
                        Entry("svgs", Dict(<<Entry("h2", Dict(<<Entry("svgCode", Str(30721))>>))>>))>>)})}

----------------------------------------------------------------------------
(* Specification of a run of main                                          *)

Init ==
    /\ pc = "start"
    /\ args \in [aggressive : BOOLEAN, target_size : TargetSizes]
    /\ input_file \in Documents
    /\ data = Null
    /\ original_size = -1
    /\ compressed_size = -1
    /\ log = <<>>
    /\ output_file = Null

Next == Load \/ WriteUnchanged \/ FirstPass \/ SecondPass \/ Save

Spec == Init /\ [][Next]_vars

----------------------------------------------------------------------------
(* Specification of calls of the tiers on a document, one after another    *)

NoArgs == [aggressive |-> FALSE, target_size |-> default_target_size]

TierInit ==
    /\ pc = "ready"
    /\ args = NoArgs
    /\ input_file \in TierDocuments
    /\ data = input_file
    /\ original_size = -1
    /\ compressed_size = -1
    /\ log = <<>>
    /\ output_file = Null

\* data = compress_<tier>(data); input_file keeps the document before the call
CallTier(tier) ==
    /\ pc \in {"ready", "returned"}
    /\ Len(log) < MaxCalls
    /\ LET r == apply_tier(tier, data) IN
          /\ data' = r.v
          /\ pc' = IF r.ok THEN "returned" ELSE "raised"
    /\ input_file' = data
    /\ log' = Append(log, tier)
    /\ UNCHANGED <<args, original_size, compressed_size, output_file>>

CallStandard == CallTier("standard")
CallAggressive == CallTier("aggressive")

TierNext == CallStandard \/ CallAggressive

SpecTier == TierInit /\ [][TierNext]_vars

----------------------------------------------------------------------------
(* Specification of one call of a stage on a value                         *)

StageInit ==
    /\ pc = "ready"
    /\ args = [fn |-> "", max |-> 0, aggressive |-> FALSE]
    /\ input_file \in AssetInputs \cup TokenInputs \cup TreeInputs
    /\ data = input_file
    /\ original_size = -1
    /\ compressed_size = -1
    /\ log = <<>>
    /\ output_file = Null

\* the call fn(data, ...) with the arguments a; r is what it hands back
CallStage(a, r) ==
    /\ pc = "ready"
    /\ args' = a
    /\ data' = r.v
    /\ pc' = IF r.ok THEN "returned" ELSE "raised"
    /\ log' = Append(log, a.fn)
    /\ UNCHANGED <<input_file, original_size, compressed_size, output_file>>

CallCompressImages ==
    \E max \in {25, 75} :
        CallStage([fn |-> "compress_images", max |-> max, aggressive |-> FALSE],
                  compress_images(data, max))

CallCompressSvgs ==
    \E max \in {10, 30} :
        CallStage([fn |-> "compress_svgs", max |-> max, aggressive |-> FALSE],
                  compress_svgs(data, max))

CallCompressDesignTokens ==
    \E aggressive \in BOOLEAN :
        CallStage([fn |-> "compress_design_tokens", max |-> 0, aggressive |-> aggressive],
                  compress_design_tokens(data, aggressive))

CallSimplifyTree ==
    \E max_depth \in 0..(MaxTreeDepth + 1) :
        CallStage([fn |-> "simplify_tree", max |-> max_depth, aggressive |-> FALSE],
                  simplify_tree(data, max_depth))

StageNext ==
    CallCompressImages \/ CallCompressSvgs \/ CallCompressDesignTokens \/ CallSimplifyTree

SpecStage == StageInit /\ [][StageNext]_vars

----------------------------------------------------------------------------
(* Properties of a run of main (Spec)                                      *)

AboveTarget(size) == size > args.target_size * MB
Last(seq) == seq[Len(seq)]

\* C1 (escalation): when the size measured after the first pass is still above
\* the target, the document is written only after a second pass, which is
\* aggressive, and what is written is the first pass's result with
\* compress_aggressive applied to it; no standard pass follows an aggressive one.
C1_Escalation ==
    /\ (pc = "done" /\ AboveTarget(compressed_size)) =>
          /\ Len(log) = 2
          /\ log[2] = "aggressive"
          /\ output_file = compress_aggressive(apply_tier(log[1], input_file).v).v
    /\ \A i, j \in 1..Len(log) : (i < j /\ log[i] = "aggressive") => log[j] # "standard"

\* a standard pass left the document above the target and the aggressive pass
\* that followed changed it before it was written
C1_Witness ==
    /\ pc = "done"
    /\ AboveTarget(compressed_size)
    /\ log = <<"standard", "aggressive">>
    /\ output_file # compress_standard(input_file).v

\* C2, as claimed: with --aggressive the aggressive tier is applied before the
\* document is written, whatever the initial size, also at or below the target.
C2_AggressiveWhateverTheSize ==
    (pc = "done" /\ args.aggressive) => \E i \in 1..Len(log) : log[i] = "aggressive"

\* C2, amended: with --aggressive and an initial size above the target, every
\* pass is aggressive, there is at least one, and the document written is the
\* input after those passes; at or below the target no tier is applied.
C2_AggressiveWhenAboveTarget ==
    (pc = "done" /\ args.aggressive) =>
        IF AboveTarget(original_size)
        THEN /\ Len(log) >= 1
             /\ \A i \in 1..Len(log) : log[i] = "aggressive"
             /\ output_file =
                    IF Len(log) = 1 THEN compress_aggressive(input_file).v
                    ELSE compress_aggressive(compress_aggressive(input_file).v).v
        ELSE log = <<>>

\* the flag, not the size, made the first pass aggressive
C2_Witness ==
    /\ pc = "done"
    /\ args.aggressive
    /\ AboveTarget(original_size)
    /\ original_size <= aggressive_threshold * MB
    /\ log[1] = "aggressive"
    /\ output_file # input_file

\* C3 (small-input passthrough): when the initial size is at or below the
\* target no tier is applied and the document written is the document loaded.
C3_Passthrough ==
    (pc = "done" /\ ~AboveTarget(original_size)) =>
        /\ log = <<>>
        /\ output_file = input_file

\* a document of some megabytes that both tiers would change is written as loaded
C3_Witness ==
    /\ pc = "done"
    /\ ~AboveTarget(original_size)
    /\ original_size > MB
    /\ \A key \in {"assets", "designTokens", "tree", "screenshot", "components"} :
           In(key, input_file) /\ In(key, output_file)
    /\ compress_standard(input_file).v # input_file

\* C9 (initial tier selection): a pass is applied only above the target; the
\* first pass is aggressive if the flag is set or the initial size is above 250,
\* standard otherwise; a run that got past the first measurement above the
\* target applied one first pass, and no run applies more than two passes.
C9_InitialTier ==
    /\ Len(log) <= 2
    /\ Len(log) >= 1 =>
          /\ AboveTarget(original_size)
          /\ log[1] = IF args.aggressive \/ original_size > 250 * MB
                      THEN "aggressive" ELSE "standard"
    /\ (pc \in {"compressed", "final", "done"} /\ AboveTarget(original_size)) => Len(log) >= 1

\* a budget other than the default, a size above 250 and no flag: aggressive
C9_Witness ==
    /\ pc = "done"
    /\ ~args.aggressive
    /\ args.target_size > aggressive_threshold
    /\ AboveTarget(original_size)
    /\ log[1] = "aggressive"

----------------------------------------------------------------------------
(* Properties of the tiers (SpecTier)                                      *)

Returned(tier) == pc = "returned" /\ Last(log) = tier

\* C4 (size monotonicity), as claimed: a tier never makes the serialised
\* document larger, whatever the shape of `components` and of `children`.
C4_SizeMonotone ==
    pc = "returned" => Size(data) <= Size(input_file)

EmptyDefinitions == Dict(<<Entry("definitions", Dict(<<>>))>>)

\* the entries of a mapping other than `definitions`
Siblings(c) == IF IsDict(c) THEN {e \in Range(c.items) : e.key # "definitions"} ELSE {}

\* C5, as claimed: after compress_aggressive on a document with `components`,
\* the key is present, `definitions` is an empty mapping and every sibling key
\* under `components` is still there with its value.
C5_SiblingsPreserved ==
    (Returned("aggressive") /\ In("components", input_file)) =>
        /\ In("components", data)
        /\ GetOrNone(Get(data, "components"), "definitions") = Dict(<<>>)
        /\ Siblings(Get(input_file, "components")) \subseteq Siblings(Get(data, "components"))

\* C5, amended: after compress_aggressive on a document with `components`, the
\* key is present, in its place, and its value is exactly the mapping whose one
\* key is `definitions`, an empty mapping: sibling keys are dropped.
C5_ComponentsReset ==
    (Returned("aggressive") /\ In("components", input_file)) =>
        /\ In("components", data)
        /\ Get(data, "components") = EmptyDefinitions

\* components had definitions and a sibling key before the aggressive tier
C5_Witness ==
    /\ Returned("aggressive")
    /\ In("components", input_file)
    /\ Siblings(Get(input_file, "components")) # {}
    /\ Truthy(GetOrNone(Get(input_file, "components"), "definitions"))

\* the color definitions of a document, if it has a colors mapping
ColorItems(d) ==
    IF In("designTokens", d) /\ In("colors", Get(d, "designTokens"))
       /\ IsDict(Get(Get(d, "designTokens"), "colors"))
    THEN Get(Get(d, "designTokens"), "colors").items
    ELSE <<>>

AllMappings(items) == \A i \in 1..Len(items) : IsDict(items[i].val)

----------------------------------------------------------------------------
(* Properties of the stages (SpecStage)                                    *)

Called(fn) == pc = "returned" /\ args.fn = fn

\* the nodes reachable from a node through `children` sequences, with their depth
RECURSIVE Reach(_, _)
Reach(node, d) ==
    IF ~IsDict(node) THEN {}
    ELSE {[d |-> d, node |-> node]}
         \cup (IF In("children", node) /\ Get(node, "children").k = "list"
               THEN UNION {Reach(Get(node, "children").items[i].val, d + 1) :
                              i \in 1..Len(Get(node, "children").items)}
               ELSE {})

\* who the elements of a `children` value are: a node by its id, anything else
\* by its value
Identity(v) == IF IsDict(v) THEN GetOrNone(v, "id") ELSE v
ChildIdentities(node) ==
    LET ch == Get(node, "children") IN
    IF ch.k = "list" THEN [i \in 1..Len(ch.items) |-> Identity(ch.items[i].val)] ELSE <<ch>>

\* C7 (depth truncation): after simplify_tree(root, max_depth) every node at
\* depth >= max_depth that has `children` has the empty sequence there (so
\* nothing lies deeper than max_depth), no reachable node has one of the six
\* metadata keys, the nodes down to max_depth are all still there, and every
\* node above max_depth has the same children, in the same order, as before.
C7_DepthTruncation ==
    Called("simplify_tree") =>
        LET before == Reach(input_file, 0)
            after == Reach(data, 0)
        IN  /\ \A r \in after :
                  /\ r.d <= args.max
                  /\ (r.d >= args.max /\ In("children", r.node)) =>
                         Get(r.node, "children") = List(<<>>)
                  /\ \A key \in {"htmlMetadata", "debugInfo", "sourceSelector",
                                 "componentSignature", "contentHash", "cssVariables"} :
                         ~In(key, r.node)
            /\ \A r \in before :
                  r.d <= args.max =>
                      \E q \in after :
                          /\ q.d = r.d
                          /\ Identity(q.node) = Identity(r.node)
                          /\ In("children", q.node) = In("children", r.node)
                          /\ (r.d < args.max /\ In("children", r.node)) =>
                                 ChildIdentities(q.node) = ChildIdentities(r.node)

\* a tree with more than one child per node, cut below its root
C7_Witness ==
    /\ Called("simplify_tree")
    /\ args.max >= 1
    /\ \E r \in Reach(input_file, 0) : r.d > args.max
    /\ \E r \in Reach(data, 0) : r.d = 0 /\ Len(ChildIdentities(r.node)) >= 2

\* the colors before and after a call of compress_design_tokens
ColorsBefore == Get(input_file, "colors").items
ColorsAfter == Get(data, "colors").items
HasColors == IsDict(input_file) /\ In("colors", input_file) /\ IsDict(Get(input_file, "colors"))
Cap == IF args.aggressive THEN 15 ELSE 30
Min(a, b) == IF a < b THEN a ELSE b

\* usage as the claim counts it: 0 without `usage` or for a definition that is
\* not a mapping
UsageOrZero(e) ==
    IF IsDict(e.val) /\ In("usage", e.val) THEN Get(e.val, "usage").n ELSE 0

\* where the entry with this key was before
PositionBefore(key) == CHOOSE i \in 1..Len(ColorsBefore) : ColorsBefore[i].key = key

\* entry `a` comes before entry `b` in the order by descending usage with ties
\* in insertion order
Precedes(a, b) ==
    \/ UsageOrZero(a) > UsageOrZero(b)
    \/ UsageOrZero(a) = UsageOrZero(b) /\ PositionBefore(a.key) < PositionBefore(b.key)

\* the colors kept are the first Cap entries of that order, definitions unchanged
KeptTopByUsage ==
    /\ Len(ColorsAfter) = Min(Len(ColorsBefore), Cap)
    /\ Range(ColorsAfter) \subseteq Range(ColorsBefore)
    /\ \A i, j \in 1..Len(ColorsAfter) : i < j => Precedes(ColorsAfter[i], ColorsAfter[j])
    /\ \A a \in Range(ColorsAfter) : \A b \in Range(ColorsBefore) \ Range(ColorsAfter) :
           Precedes(a, b)

WrongShape(v, key) == IsDict(v) /\ In(key, v) /\ ~IsDict(Get(v, key))

\* C10, as claimed: a stage whose optional key is missing or has a value of
\* the wrong shape returns without raising and leaves the value as it was.
C10_ShapeMismatchTolerated ==
    /\ (args.fn = "compress_images" /\ IsDict(input_file)
          /\ (~In("images", input_file) \/ WrongShape(input_file, "images")))
       => (pc = "returned" /\ data = input_file)
    /\ (args.fn = "compress_svgs" /\ IsDict(input_file)
          /\ (~In("svgs", input_file) \/ WrongShape(input_file, "svgs")))
       => (pc = "returned" /\ data = input_file)
    /\ (args.fn = "compress_design_tokens" /\ IsDict(input_file))
       => \A key \in {"colors", "typography", "spacing"} :
              (~In(key, input_file) \/ WrongShape(input_file, key))
              => (pc = "returned" /\ In(key, data) = In(key, input_file)
                  /\ GetOrNone(data, key) = GetOrNone(input_file, key))
    /\ (args.fn = "simplify_tree" /\ ~IsDict(input_file))
       => (pc = "returned" /\ data = input_file)
    /\ (args.fn = "simplify_tree" /\ IsDict(input_file))
       => /\ pc = "returned"
          /\ \A r \in Reach(input_file, 0) :
                 (In("children", r.node) /\ Get(r.node, "children").k # "list")
                 => \E q \in Reach(data, 0) :
                        /\ Identity(q.node) = Identity(r.node)
                        /\ In("children", q.node)
                        /\ Get(q.node, "children") = Get(r.node, "children")

====
